---- MODULE Spec2Model ----
(***************************************************************************)
(* A model of oura_prometheus.hpp: the atomic_double accumulator, Counter, *)
(* Gauge, Histogram, the MetricFamily label cache, the Registry with its   *)
(* collect, and the TextSerializer.                                        *)
(*                                                                         *)
(* Doubles are modelled by integers: every value the model stores is a     *)
(* small whole number, which a double represents exactly.                  *)
(***************************************************************************)
EXTENDS Integers, Sequences, FiniteSets, TLC

VARIABLES
    \* ---- atomic_double / Counter (one accumulator shared by threads) ----
    value,      \* the std::atomic<double> payload
    apc,        \* per thread: position inside operator+= / operator-= / change
    aop,        \* per thread: the pending call [op, d]
    atarget,    \* per thread: target_value, the argument of change()
    acurrent,   \* per thread: the local `current` of change()
    acalls,     \* number of calls started so far
    applied     \* history: sum of the deltas of the calls started so far

avars == <<value, apc, aop, atarget, acurrent, acalls, applied>>

VARIABLES
    \* ---- MetricFamily<Gauge> (one family) ----
    metrics,    \* _metrics: label set -> instance (a shared_ptr, 0 is nullptr)
    insts,      \* the heap: instance i is insts[i], [init, val]
    fcalls,     \* number of labels() calls started so far
    flast,      \* the last labels() call that returned: [labels, arg, threw, inst]
    first,      \* history: label set -> the instance the first labels() for it returned
    famOut,     \* the samples the last serialize() handed to the serializer
    fpc,        \* per thread: position inside labels()
    fcall,      \* per thread: the arguments [labels, arg] of its call
    fnew,       \* per thread: new_metric
    fseen,      \* per thread: the map as insert()'s descent read it
    fmade,      \* history: {<<label set, instance>>} constructed by make_shared
    fret        \* history: {<<label set, instance>>} returned by labels()

fvars == <<metrics, insts, fcalls, flast, first, famOut,
           fpc, fcall, fnew, fseen, fmade, fret>>

VARIABLES
    \* ---- Registry (one registry) ----
    register_metrics,   \* _register_metrics: name -> metric
    mutex,      \* _access_mtx: "free" or the thread that holds it
    rtick,      \* flips at every call of the sequential specification
    rlast,      \* the last call that returned, with what it returned
    live,       \* history: names a register returned true for, not unregistered since
    gone,       \* history: names whose last unregister no successful register followed
    ever,       \* history: names a register ever returned true for
    rpc,        \* per thread: position inside its registry call
    rcall,      \* per thread: the call [op, name, metric]
    rfound,     \* per thread: the outcome of find()
    rres,       \* per thread: the value its call is about to return
    rcalls,     \* number of calls threads started so far
    rtrue,      \* history: per name, the register calls that returned true
    rdone,      \* history: per name, the register calls that returned
    rwinner,    \* history: per name, the metric of the last register that returned true
    runreg      \* history: the names unregister was called with

rvars == <<register_metrics, mutex, rtick, rlast, live, gone, ever,
           rpc, rcall, rfound, rres, rcalls, rtrue, rdone, rwinner, runreg>>

VARIABLES
    \* ---- one Counter and one Gauge, called by one caller at a time ----
    gauge,      \* Gauge::_value (the Counter's _value is `value` above)
    garg,       \* the argument the Gauge was constructed with: [given, v]
    slast,      \* the last call that returned: [obj, op, arg]
    scalls      \* number of calls made so far

svars == <<gauge, garg, slast, scalls>>

VARIABLES
    \* ---- Histogram (one histogram) ----
    ladder,     \* the buckets argument of the constructor
    buckets,    \* _buckets: upper bound -> count
    hsum,       \* _sum
    hcalls,     \* number of observe() calls started so far
    hlast,      \* the value of the last observe() started
    hpc,        \* per thread: position inside observe(): "idle", "sum", "bucket"
    hval,       \* per thread: the argument value
    hidx,       \* per thread: the place of the loop in _buckets
    hphase,     \* per thread: position inside the += in progress
    htarget,    \* per thread: target_value of that +=
    hcur        \* per thread: current of that +=

hvars == <<ladder, buckets, hsum, hcalls, hlast,
           hpc, hval, hidx, hphase, htarget, hcur>>

VARIABLES
    \* ---- TextSerializer called on its own ----
    targs,      \* the function called last and its arguments
    tlines,     \* the lines it wrote to the stream
    tcalls      \* number of calls so far

tvars == <<targs, tlines, tcalls>>

VARIABLES
    \* ---- The scrape: Registry::collect, then TextSerializer::serialize ----
    held,       \* the metrics the application holds a shared_ptr to
    mval,       \* the value of each metric
    out,        \* the caller's map: name -> weak_ptr<Metric>
    stream,     \* the lines serialize wrote last
    clast,      \* the last of collect, serialize
    ctick,      \* flips at every collect and serialize of the sequential specification
    spc,        \* the scraping thread: its position inside collect or serialize
    sit,        \* the scraping thread: the key of out its loop is at
    snode,      \* the scraping thread: the node of _register_metrics it read
    slocked,    \* the scraping thread: what lock() returned
    scrapes     \* number of scrapes started so far

cvars == <<held, mval, out, stream, clast, ctick,
           spc, sit, snode, slocked, scrapes>>

VARIABLES
    \* ---- A reader of the histogram: Histogram::serialize, buckets() ----
    rdpc,       \* the reading thread: "idle", or "walk" inside its loop
    rdidx,      \* the reading thread: the place of its loop in _buckets
    rdseen,     \* the counts its loop has read so far, in the order of the map
    rdcalls     \* number of walks started so far

qvars == <<rdpc, rdidx, rdseen, rdcalls>>

vars == <<avars, fvars, rvars, svars, hvars, tvars, cvars, qvars>>

notAcc == <<fvars, rvars, svars, hvars, tvars, cvars, qvars>>
notFam == <<avars, rvars, svars, hvars, tvars, cvars, qvars>>
notReg == <<avars, fvars, svars, hvars, tvars, cvars, qvars>>
notSeq == <<fvars, rvars, hvars, tvars, cvars, qvars>>
notHist == <<avars, fvars, rvars, svars, tvars, cvars, qvars>>
notText == <<avars, fvars, rvars, svars, hvars, cvars, qvars>>
notScrape == <<avars, fvars, svars, hvars, tvars, qvars>>
notRead == <<avars, fvars, rvars, svars, hvars, tvars, cvars>>

--------------------------------------------------------------------------
(* Bounds *)

MaxAccCalls == 3

AccThreads == {"t1", "t2"}
AccDeltas == {1, 2}
CounterDeltas == {-1, 0, 1, 2}
InitialValue == 0

NoOp == [op |-> "none", d |-> 0]

--------------------------------------------------------------------------
(* atomic_double *)

AccInit ==
    /\ value = InitialValue
    /\ apc = [t \in AccThreads |-> "idle"]
    /\ aop = [t \in AccThreads |-> NoOp]
    /\ atarget = [t \in AccThreads |-> 0]
    /\ acurrent = [t \in AccThreads |-> 0]
    /\ acalls = 0
    /\ applied = 0

\* The operand of change() as operator+= and operator-= compute it from the
\* value they load.
OpTarget(loaded, o) ==
    IF o.op = "add" THEN loaded + o.d ELSE loaded - o.d

\* The signed delta a call is meant to apply.
Signed(o) == IF o.op = "add" THEN o.d ELSE 0 - o.d

\* A thread enters operator+= or operator-=.
AccBegin(t, o) ==
    /\ apc[t] = "idle"
    /\ acalls < MaxAccCalls
    /\ apc' = [apc EXCEPT ![t] = "load"]
    /\ aop' = [aop EXCEPT ![t] = o]
    /\ acalls' = acalls + 1
    /\ applied' = applied + Signed(o)
    /\ UNCHANGED <<value, atarget, acurrent>>
    /\ UNCHANGED notAcc

OpAdd(t) == \E d \in AccDeltas : AccBegin(t, [op |-> "add", d |-> d])

OpSub(t) == \E d \in AccDeltas : AccBegin(t, [op |-> "sub", d |-> d])

\* this->load() + value, this->load() - value: the argument of change().
OpLoad(t) ==
    /\ apc[t] = "load"
    /\ atarget' = [atarget EXCEPT ![t] = OpTarget(value, aop[t])]
    /\ apc' = [apc EXCEPT ![t] = "init"]
    /\ UNCHANGED <<value, aop, acurrent, acalls, applied, notAcc>>

\* change(): double current = *this
ChangeInit(t) ==
    /\ apc[t] = "init"
    /\ acurrent' = [acurrent EXCEPT ![t] = value]
    /\ apc' = [apc EXCEPT ![t] = "cas"]
    /\ UNCHANGED <<value, aop, atarget, acalls, applied, notAcc>>

\* compare_exchange_weak(current, target_value) succeeds: the store, and the
\* loop and the operator return.
ChangeCasOk(t) ==
    /\ apc[t] = "cas"
    /\ value = acurrent[t]
    /\ value' = atarget[t]
    /\ apc' = [apc EXCEPT ![t] = "idle"]
    /\ aop' = [aop EXCEPT ![t] = NoOp]
    /\ UNCHANGED <<atarget, acurrent, acalls, applied, notAcc>>

\* compare_exchange_weak fails, because the value differs or spuriously: it
\* reloads current and the loop retries with the same target_value.
ChangeCasFail(t) ==
    /\ apc[t] = "cas"
    /\ acurrent' = [acurrent EXCEPT ![t] = value]
    /\ UNCHANGED <<value, apc, aop, atarget, acalls, applied, notAcc>>

AccStep(t) ==
    \/ OpLoad(t)
    \/ ChangeInit(t)
    \/ ChangeCasOk(t)
    \/ ChangeCasFail(t)

NextAcc ==
    \E t \in AccThreads :
        \/ OpAdd(t)
        \/ OpSub(t)
        \/ AccStep(t)

--------------------------------------------------------------------------
(* Counter *)

\* Counter::inc: _value += 1
CounterInc(t) == AccBegin(t, [op |-> "add", d |-> 1])

\* Counter::add: _value += value when value > 0.0, nothing otherwise.
CounterAdd(t) ==
    \E v \in CounterDeltas :
        IF v > 0
        THEN AccBegin(t, [op |-> "add", d |-> v])
        ELSE /\ apc[t] = "idle"
             /\ acalls < MaxAccCalls
             /\ acalls' = acalls + 1
             /\ UNCHANGED <<value, apc, aop, atarget, acurrent, applied, notAcc>>

\* Counter::get
CounterGet == value

NextCounter ==
    \E t \in AccThreads :
        \/ CounterInc(t)
        \/ CounterAdd(t)
        \/ AccStep(t)

--------------------------------------------------------------------------
(* Label, std::set<Label> *)

MaxFamCalls == 3

FamThreads == {"t1", "t2"}

Label(n, v) == [name |-> n, value |-> v]

\* The family under test: GaugeFamily("my_gauge", "used for tests", {"l1", "l2"})
family_name == "my_gauge"
labels_names == {"l1", "l2"}

\* The labels callers pass, in the order of Label::operator< (by name, then
\* by value).
LabelOrder ==
    <<Label("l1", "0"), Label("l1", "1"), Label("l2", "0"), Label("l3", "0")>>

LabelUniverse == {LabelOrder[i] : i \in 1..Len(LabelOrder)}

\* The label sets callers pass: std::set<Label> holds each (name, value) once.
LabelSets == SUBSET LabelUniverse

\* The default_value arguments callers pass, and the values Gauge::set stores.
DefaultValues == {0, 5}
GaugeValues == {7}

Rank(l) == CHOOSE i \in 1..Len(LabelOrder) : LabelOrder[i] = l

\* Label::operator<
LabelLess(a, b) == Rank(a) < Rank(b)

\* A std::set<Label> in iteration order.
RECURSIVE SetSeq(_)
SetSeq(S) ==
    IF S = {} THEN <<>>
    ELSE LET m == CHOOSE x \in S : \A y \in S \ {x} : LabelLess(x, y)
         IN <<m>> \o SetSeq(S \ {m})

\* std::set<Label>::operator<: lexicographical_compare of the two ranges.
SetLess(A, B) ==
    LET a == SetSeq(A)
        b == SetSeq(B)
    IN \E i \in 1..(Len(b)) :
          /\ \A j \in 1..(i - 1) : j <= Len(a) /\ a[j] = b[j]
          /\ \/ i > Len(a)
             \/ i <= Len(a) /\ LabelLess(a[i], b[i])

\* The keys of a std::map<std::set<Label>, ...> in iteration order.
RECURSIVE KeySeq(_)
KeySeq(K) ==
    IF K = {} THEN <<>>
    ELSE LET m == CHOOSE x \in K : \A y \in K \ {x} : SetLess(x, y)
         IN <<m>> \o KeySeq(K \ {m})

--------------------------------------------------------------------------
(* MetricFamily<Gauge> *)

Null == 0
EmptyMap == [k \in {} |-> Null]
NoCall == [labels |-> {}, arg |-> 0]
NoReturn == [labels |-> {}, arg |-> 0, threw |-> FALSE, inst |-> Null]

FamInit ==
    /\ metrics = EmptyMap
    /\ insts = <<>>
    /\ fcalls = 0
    /\ flast = NoReturn
    /\ first = EmptyMap
    /\ famOut = <<>>
    /\ fpc = [t \in FamThreads |-> "idle"]
    /\ fcall = [t \in FamThreads |-> NoCall]
    /\ fnew = [t \in FamThreads |-> Null]
    /\ fseen = [t \in FamThreads |-> EmptyMap]
    /\ fmade = {}
    /\ fret = {}

\* labels.size() != _labels_names.size()
WrongSize(labels) == Cardinality(labels) # Cardinality(labels_names)

\* std::any_of(labels, pred): some label's name is not in _labels_names.
WrongNames(labels) == \E l \in labels : l.name \notin labels_names

\* A mutant: the check of the size is left out.
LabelsThrowsNamesOnly(labels) == WrongNames(labels)

\* The two checks that throw std::invalid_argument.
LabelsThrows(labels) == WrongSize(labels) \/ WrongNames(labels)

\* A mutant: keys compared by their label names alone.
FoundByNames(m, labels) ==
    \E k \in DOMAIN m : {l.name : l \in k} = {l.name : l \in labels}

\* _metrics.find(labels) != _metrics.end()
Found(m, labels) == labels \in DOMAIN m

\* std::map::insert: no effect when the key is present.
MapInsert(m, k, i) == IF k \in DOMAIN m THEN m ELSE m @@ (k :> i)

\* std::map::operator[]: inserts a value-initialized (null) shared_ptr when
\* the key is absent.
MapIndex(m, k) == IF k \in DOMAIN m THEN m ELSE m @@ (k :> Null)

\* std::make_shared<Gauge>(default_value)
NewGauge(arg) == [init |-> arg, val |-> arg]

\* The history of first returns.
NoteFirst(f, k, i) == IF k \in DOMAIN f THEN f ELSE f @@ (k :> i)

\* MetricFamily::labels, run by one caller with no other call in progress.
Labels ==
    \E labels \in LabelSets, arg \in DefaultValues :
        /\ fcalls < MaxFamCalls
        /\ \A t \in FamThreads : fpc[t] = "idle"
        /\ fcalls' = fcalls + 1
        /\ IF LabelsThrows(labels)
           THEN /\ flast' = [labels |-> labels, arg |-> arg,
                             threw |-> TRUE, inst |-> Null]
                /\ UNCHANGED <<metrics, insts, first, fmade, fret>>
           ELSE IF Found(metrics, labels)
           THEN /\ metrics' = MapIndex(metrics, labels)
                /\ flast' = [labels |-> labels, arg |-> arg,
                             threw |-> FALSE, inst |-> metrics'[labels]]
                /\ first' = NoteFirst(first, labels, metrics'[labels])
                /\ fret' = fret \cup {<<labels, metrics'[labels]>>}
                /\ UNCHANGED <<insts, fmade>>
           ELSE /\ insts' = Append(insts, NewGauge(arg))
                /\ metrics' = MapInsert(metrics, labels, Len(insts'))
                /\ flast' = [labels |-> labels, arg |-> arg,
                             threw |-> FALSE, inst |-> Len(insts')]
                /\ first' = NoteFirst(first, labels, Len(insts'))
                /\ fmade' = fmade \cup {<<labels, Len(insts')>>}
                /\ fret' = fret \cup {<<labels, Len(insts')>>}
        /\ UNCHANGED <<famOut, fpc, fcall, fnew, fseen, notFam>>

\* Gauge::set on an instance a caller holds.
GaugeSet ==
    \E i \in 1..Len(insts), v \in GaugeValues :
        /\ insts[i].val # v
        /\ insts' = [insts EXCEPT ![i].val = v]
        /\ UNCHANGED <<metrics, fcalls, flast, first, famOut,
                       fpc, fcall, fnew, fseen, fmade, fret, notFam>>

\* Gauge::serialize: one sample, with no additional label.
GaugeSample(name, i, labels) ==
    [name |-> name, value |-> insts[i].val, labels |-> labels,
     additional |-> Label("", "")]

\* MetricFamily::serialize: every cached instance, in key order.
Samples(m) ==
    LET keys == KeySeq({k \in DOMAIN m : m[k] # Null})
    IN [n \in 1..Len(keys) |-> GaugeSample(family_name, m[keys[n]], keys[n])]

FamSerialize ==
    /\ metrics # EmptyMap
    /\ famOut' = Samples(metrics)
    /\ famOut' # famOut
    /\ UNCHANGED <<metrics, insts, fcalls, flast, first,
                   fpc, fcall, fnew, fseen, fmade, fret, notFam>>

NextFamily ==
    \/ Labels
    \/ GaugeSet
    \/ FamSerialize

--------------------------------------------------------------------------
(* MetricFamily::labels called by several threads.  The function takes no *)
(* lock, so its statements interleave, and std::map::insert is itself two *)
(* steps: the descent that finds the place of the key, and the link that  *)
(* writes the node there.                                                 *)

\* The maps a link can leave behind.  With the map as the descent read it,
\* the node is linked in.  With the map modified since by another thread
\* (a data race on the tree), the link either lands in the tree as it is
\* now, or is written at the place the descent found and drops what other
\* threads linked there meanwhile.
InsertOutcomes(cur, seen, k, i) ==
    IF k \in DOMAIN seen THEN {cur}
    ELSE IF cur = seen THEN {MapInsert(cur, k, i)}
    ELSE {MapInsert(cur, k, i), seen @@ (k :> i)}

\* A thread calls labels(labels, default_value); the two checks read only
\* the const _labels_names and the argument.
LabelsCall(t) ==
    \E labels \in LabelSets, arg \in DefaultValues :
        /\ fpc[t] = "idle"
        /\ fcalls < MaxFamCalls
        /\ fcalls' = fcalls + 1
        /\ IF LabelsThrows(labels)
           THEN /\ flast' = [labels |-> labels, arg |-> arg,
                             threw |-> TRUE, inst |-> Null]
                /\ UNCHANGED <<fpc, fcall>>
           ELSE /\ fpc' = [fpc EXCEPT ![t] = "find"]
                /\ fcall' = [fcall EXCEPT ![t] = [labels |-> labels, arg |-> arg]]
                /\ UNCHANGED flast
        /\ UNCHANGED <<metrics, insts, first, famOut, fnew, fseen, fmade, fret,
                       notFam>>

\* if(_metrics.find(labels) != _metrics.end())
LabelsFind(t) ==
    /\ fpc[t] = "find"
    /\ fpc' = [fpc EXCEPT ![t] =
                  IF Found(metrics, fcall[t].labels) THEN "get" ELSE "make"]
    /\ UNCHANGED <<metrics, insts, fcalls, flast, first, famOut,
                   fcall, fnew, fseen, fmade, fret, notFam>>

\* The call returns instance i.
Return(t, i) ==
    /\ fpc' = [fpc EXCEPT ![t] = "idle"]
    /\ fcall' = [fcall EXCEPT ![t] = NoCall]
    /\ fnew' = [fnew EXCEPT ![t] = Null]
    /\ fseen' = [fseen EXCEPT ![t] = EmptyMap]
    /\ flast' = [labels |-> fcall[t].labels, arg |-> fcall[t].arg,
                 threw |-> FALSE, inst |-> i]
    /\ first' = NoteFirst(first, fcall[t].labels, i)
    /\ fret' = fret \cup {<<fcall[t].labels, i>>}

\* res = _metrics[labels]; return res;
LabelsGet(t) ==
    /\ fpc[t] = "get"
    /\ metrics' = MapIndex(metrics, fcall[t].labels)
    /\ Return(t, metrics'[fcall[t].labels])
    /\ UNCHANGED <<insts, fcalls, famOut, fmade, notFam>>

\* std::shared_ptr<T> new_metric = std::make_shared<T>(args...);
LabelsMake(t) ==
    /\ fpc[t] = "make"
    /\ insts' = Append(insts, NewGauge(fcall[t].arg))
    /\ fnew' = [fnew EXCEPT ![t] = Len(insts')]
    /\ fmade' = fmade \cup {<<fcall[t].labels, Len(insts')>>}
    /\ fpc' = [fpc EXCEPT ![t] = "insert"]
    /\ UNCHANGED <<metrics, fcalls, flast, first, famOut, fcall, fseen, fret,
                   notFam>>

\* _metrics.insert({labels, new_metric}): the descent.
LabelsInsertFind(t) ==
    /\ fpc[t] = "insert"
    /\ fseen' = [fseen EXCEPT ![t] = metrics]
    /\ fpc' = [fpc EXCEPT ![t] = "link"]
    /\ UNCHANGED <<metrics, insts, fcalls, flast, first, famOut, fcall, fnew,
                   fmade, fret, notFam>>

\* _metrics.insert({labels, new_metric}): the link; res = new_metric; return res;
LabelsInsertLink(t) ==
    /\ fpc[t] = "link"
    /\ metrics' \in InsertOutcomes(metrics, fseen[t], fcall[t].labels, fnew[t])
    /\ Return(t, fnew[t])
    /\ UNCHANGED <<insts, fcalls, famOut, fmade, notFam>>

NextFamilyConc ==
    \/ \E t \in FamThreads :
          \/ LabelsCall(t)
          \/ LabelsFind(t)
          \/ LabelsGet(t)
          \/ LabelsMake(t)
          \/ LabelsInsertFind(t)
          \/ LabelsInsertLink(t)
    \/ FamSerialize

--------------------------------------------------------------------------
(* Registry *)

MaxRegCalls == 4

RegThreads == {"t1", "t2"}

\* The metrics callers hold (shared_ptr<Metric>, 0 is nullptr) and the name
\* each was constructed with: 1 and 2 share a name.
MetricObjs == {1, 2, 3}
MetricName(m) == IF m = 3 THEN "my_counter" ELSE "my_gauge"
MetricNames == {MetricName(m) : m \in MetricObjs}

NoRegCall == [op |-> "none", name |-> "", metric |-> Null]
NoRegReturn ==
    [op |-> "none", name |-> "", metric |-> Null,
     retb |-> FALSE, retm |-> Null, retn |-> 0]

RegInit ==
    /\ register_metrics = EmptyMap
    /\ mutex = "free"
    /\ rtick = FALSE
    /\ rlast = NoRegReturn
    /\ live = {}
    /\ gone = {}
    /\ ever = {}
    /\ rpc = [t \in RegThreads |-> "idle"]
    /\ rcall = [t \in RegThreads |-> NoRegCall]
    /\ rfound = [t \in RegThreads |-> FALSE]
    /\ rres = [t \in RegThreads |-> NoRegReturn]
    /\ rcalls = 0
    /\ rtrue = [n \in MetricNames |-> 0]
    /\ rdone = [n \in MetricNames |-> 0]
    /\ rwinner = [n \in MetricNames |-> Null]
    /\ runreg = {}

\* A mutant: no mutual exclusion.
CanLockAlways(t) == TRUE

\* std::lock_guard<std::mutex> lock(_access_mtx) can be constructed.
CanLock(t) == mutex = "free"

\* _register_metrics.find(metric_name) != _register_metrics.end()
NameFound(reg, n) == n \in DOMAIN reg

\* _register_metrics.insert({metric_name, metric})
RegInsert(reg, m) == MapInsert(reg, MetricName(m), m)

\* A mutant: erase removes nothing.
RegEraseNothing(reg, n) == reg

\* _register_metrics.erase(metric_name): the map without the key.
RegErase(reg, n) == [k \in DOMAIN reg \ {n} |-> reg[k]]

\* _register_metrics.erase(metric_name): the number of elements removed.
RegErased(reg, n) == IF n \in DOMAIN reg THEN 1 ELSE 0

\* _register_metrics.size()
RegSize(reg) == Cardinality(DOMAIN reg)

\* A mutant: the metric is stored with operator[] whatever find said.
register_metric_overwrite(reg, m) ==
    [ret |-> TRUE,
     reg |-> [k \in DOMAIN reg \cup {MetricName(m)} |->
                 IF k = MetricName(m) THEN m ELSE reg[k]]]

\* What register_metric returns and leaves behind, as [ret, reg].
register_metric(reg, m) ==
    IF ~NameFound(reg, MetricName(m))
    THEN [ret |-> TRUE, reg |-> RegInsert(reg, m)]
    ELSE [ret |-> FALSE, reg |-> reg]

\* What unregister_metric returns and leaves behind.
unregister_metric(reg, n) ==
    [ret |-> RegErased(reg, n) # 0, reg |-> RegErase(reg, n)]

\* What get_metric returns and leaves behind.
get_metric(reg, n) ==
    IF NameFound(reg, n)
    THEN [ret |-> MapIndex(reg, n)[n], reg |-> MapIndex(reg, n)]
    ELSE [ret |-> Null, reg |-> reg]

\* The history of the names: live after a register that returned true,
\* gone after an unregister.
NoteRegister(n, ret) ==
    /\ live' = IF ret THEN live \cup {n} ELSE live
    /\ gone' = IF ret THEN gone \ {n} ELSE gone
    /\ ever' = IF ret THEN ever \cup {n} ELSE ever

NoteUnregister(n) ==
    /\ live' = live \ {n}
    /\ gone' = gone \cup {n}
    /\ ever' = ever

concVars == <<rpc, rcall, rfound, rres, rcalls, rtrue, rdone, rwinner, runreg>>

\* Registry::register_metric, run by one caller with no other call in progress.
RegisterMetric ==
    \E m \in MetricObjs :
        LET r == register_metric(register_metrics, m)
        IN /\ CanLock("t1")
           /\ register_metrics' = r.reg
           /\ rlast' = [NoRegReturn EXCEPT !.op = "register", !.metric = m,
                           !.name = MetricName(m), !.retb = r.ret]
           /\ rtick' = ~rtick
           /\ NoteRegister(MetricName(m), r.ret)
           /\ UNCHANGED <<mutex, concVars, notReg>>

\* Registry::unregister_metric
UnregisterMetric ==
    \E n \in MetricNames :
        LET r == unregister_metric(register_metrics, n)
        IN /\ CanLock("t1")
           /\ register_metrics' = r.reg
           /\ rlast' = [NoRegReturn EXCEPT !.op = "unregister", !.name = n,
                           !.retb = r.ret]
           /\ rtick' = ~rtick
           /\ NoteUnregister(n)
           /\ UNCHANGED <<mutex, concVars, notReg>>

\* Registry::get_metric
GetMetric ==
    \E n \in MetricNames :
        LET r == get_metric(register_metrics, n)
        IN /\ CanLock("t1")
           /\ register_metrics' = r.reg
           /\ rlast' = [NoRegReturn EXCEPT !.op = "get", !.name = n,
                           !.retm = r.ret]
           /\ rtick' = ~rtick
           /\ UNCHANGED <<mutex, live, gone, ever, concVars, notReg>>

\* Registry::size
Size ==
    /\ CanLock("t1")
    /\ rlast' = [NoRegReturn EXCEPT !.op = "size",
                    !.retn = RegSize(register_metrics)]
    /\ rtick' = ~rtick
    /\ UNCHANGED <<register_metrics, mutex, live, gone, ever, concVars, notReg>>

NextRegistry ==
    \/ RegisterMetric
    \/ UnregisterMetric
    \/ GetMetric
    \/ Size

--------------------------------------------------------------------------
(* Registry calls made by several threads: each takes _access_mtx with a  *)
(* lock_guard for its whole body and releases it as it returns.           *)

seqVars == <<rtick, rlast, live, gone, ever>>

\* A thread calls register_metric, unregister_metric, get_metric or size.
RegCall(t) ==
    \E c \in {[op |-> "register", name |-> MetricName(m), metric |-> m] :
                 m \in MetricObjs}
             \cup {[op |-> o, name |-> n, metric |-> Null] :
                      o \in {"unregister", "get"}, n \in MetricNames}
             \cup {[op |-> "size", name |-> "", metric |-> Null]} :
        /\ rpc[t] = "idle"
        /\ rcalls < MaxRegCalls
        /\ rcalls' = rcalls + 1
        /\ rcall' = [rcall EXCEPT ![t] = c]
        /\ rpc' = [rpc EXCEPT ![t] = "lock"]
        /\ runreg' = IF c.op = "unregister" THEN runreg \cup {c.name} ELSE runreg
        /\ UNCHANGED <<register_metrics, mutex, seqVars, rfound, rres,
                       rtrue, rdone, rwinner, notReg>>

\* std::lock_guard<std::mutex> lock(_access_mtx);
RegLock(t) ==
    /\ rpc[t] = "lock"
    /\ CanLock(t)
    /\ mutex' = t
    /\ rpc' = [rpc EXCEPT ![t] = IF rcall[t].op \in {"register", "get"}
                                 THEN "find" ELSE rcall[t].op]
    /\ UNCHANGED <<register_metrics, seqVars, rcall, rfound, rres, rcalls,
                   rtrue, rdone, rwinner, runreg, notReg>>

\* register_metric, get_metric: _register_metrics.find(metric_name)
RegFind(t) ==
    /\ rpc[t] = "find"
    /\ rfound' = [rfound EXCEPT ![t] = NameFound(register_metrics, rcall[t].name)]
    /\ rpc' = [rpc EXCEPT ![t] = IF rcall[t].op = "register" THEN "insert"
                                 ELSE "index"]
    /\ UNCHANGED <<register_metrics, mutex, seqVars, rcall, rres, rcalls,
                   rtrue, rdone, rwinner, runreg, notReg>>

\* register_metric: was_metric_registered = true and the insert, when find
\* reached end().
RegInsertStep(t) ==
    /\ rpc[t] = "insert"
    /\ register_metrics' = IF rfound[t] THEN register_metrics
                           ELSE RegInsert(register_metrics, rcall[t].metric)
    /\ rres' = [rres EXCEPT ![t] = [NoRegReturn EXCEPT !.retb = ~rfound[t]]]
    /\ rpc' = [rpc EXCEPT ![t] = "unlock"]
    /\ UNCHANGED <<mutex, seqVars, rcall, rfound, rcalls,
                   rtrue, rdone, rwinner, runreg, notReg>>

\* get_metric: metric = _register_metrics[metric_name], when find found it.
RegIndexStep(t) ==
    /\ rpc[t] = "index"
    /\ register_metrics' = IF rfound[t] THEN MapIndex(register_metrics, rcall[t].name)
                           ELSE register_metrics
    /\ rres' = [rres EXCEPT ![t] = [NoRegReturn EXCEPT !.retm =
                   IF rfound[t] THEN register_metrics'[rcall[t].name] ELSE Null]]
    /\ rpc' = [rpc EXCEPT ![t] = "unlock"]
    /\ UNCHANGED <<mutex, seqVars, rcall, rfound, rcalls,
                   rtrue, rdone, rwinner, runreg, notReg>>

\* unregister_metric: _register_metrics.erase(metric_name) != 0
RegEraseStep(t) ==
    /\ rpc[t] = "unregister"
    /\ register_metrics' = RegErase(register_metrics, rcall[t].name)
    /\ rres' = [rres EXCEPT ![t] = [NoRegReturn EXCEPT !.retb =
                   RegErased(register_metrics, rcall[t].name) # 0]]
    /\ rpc' = [rpc EXCEPT ![t] = "unlock"]
    /\ UNCHANGED <<mutex, seqVars, rcall, rfound, rcalls,
                   rtrue, rdone, rwinner, runreg, notReg>>

\* size: _register_metrics.size()
RegSizeStep(t) ==
    /\ rpc[t] = "size"
    /\ rres' = [rres EXCEPT ![t] = [NoRegReturn EXCEPT !.retn =
                   RegSize(register_metrics)]]
    /\ rpc' = [rpc EXCEPT ![t] = "unlock"]
    /\ UNCHANGED <<register_metrics, mutex, seqVars, rcall, rfound, rcalls,
                   rtrue, rdone, rwinner, runreg, notReg>>

\* A mutant: the lock_guard's destructor leaves the mutex locked.
RegUnlockKeeps(t) ==
    /\ rpc[t] = "unlock"
    /\ rpc' = [rpc EXCEPT ![t] = "idle"]
    /\ rcall' = [rcall EXCEPT ![t] = NoRegCall]
    /\ rfound' = [rfound EXCEPT ![t] = FALSE]
    /\ rres' = [rres EXCEPT ![t] = NoRegReturn]
    /\ UNCHANGED <<register_metrics, mutex, seqVars, rcalls, runreg, rtrue,
                   rdone, rwinner, notReg>>

\* The lock_guard's destructor, and the return.
RegUnlock(t) ==
    /\ rpc[t] = "unlock"
    /\ mutex' = "free"
    /\ rpc' = [rpc EXCEPT ![t] = "idle"]
    /\ rcall' = [rcall EXCEPT ![t] = NoRegCall]
    /\ rfound' = [rfound EXCEPT ![t] = FALSE]
    /\ rres' = [rres EXCEPT ![t] = NoRegReturn]
    /\ IF rcall[t].op = "register"
       THEN /\ rdone' = [rdone EXCEPT ![rcall[t].name] = @ + 1]
            /\ rtrue' = [rtrue EXCEPT ![rcall[t].name] =
                            IF rres[t].retb THEN @ + 1 ELSE @]
            /\ rwinner' = [rwinner EXCEPT ![rcall[t].name] =
                              IF rres[t].retb THEN rcall[t].metric ELSE @]
       ELSE UNCHANGED <<rtrue, rdone, rwinner>>
    /\ UNCHANGED <<register_metrics, seqVars, rcalls, runreg, notReg>>

NextRegistryConc ==
    \E t \in RegThreads :
        \/ RegCall(t)
        \/ RegLock(t)
        \/ RegFind(t)
        \/ RegInsertStep(t)
        \/ RegIndexStep(t)
        \/ RegEraseStep(t)
        \/ RegSizeStep(t)
        \/ RegUnlock(t)

--------------------------------------------------------------------------
(* Counter and Gauge called by one caller at a time: each operator+= and  *)
(* operator-= runs from its load to the end of change() with no other     *)
(* writer of the value.                                                   *)

MaxSeqCalls == 5

\* The arguments callers pass to Gauge::Gauge, Gauge::set, add and sub.
GaugeCtorArgs == {[given |-> FALSE, v |-> 0], [given |-> TRUE, v |-> 5]}
GaugeSetValues == {-3, 0, 7}
GaugeDeltas == {-1, 0, 1, 2}

NoSeqCall == [obj |-> "none", op |-> "none", arg |-> 0]

\* explicit Gauge(const double initial_value = 0) : _value(initial_value)
GaugeCtor(a) == IF a.given THEN a.v ELSE 0

SeqInit ==
    /\ garg = [given |-> FALSE, v |-> 0]
    /\ gauge = GaugeCtor(garg)
    /\ slast = NoSeqCall
    /\ scalls = 0

\* A Gauge constructed with any of the arguments.
SeqInitAny ==
    /\ garg \in GaugeCtorArgs
    /\ gauge = GaugeCtor(garg)
    /\ slast = NoSeqCall
    /\ scalls = 0

\* change(target_value) with no other writer: current is the value, the
\* compare_exchange_weak loop retries its spurious failures and ends with
\* the store of target_value.
ChangeAlone(val, target) == target

\* operator+= and operator-= with no other writer.
PlusEquals(val, d) == ChangeAlone(val, OpTarget(val, [op |-> "add", d |-> d]))
MinusEquals(val, d) == ChangeAlone(val, OpTarget(val, [op |-> "sub", d |-> d]))

\* The call returns.
SeqReturn(obj, op, arg) ==
    /\ scalls < MaxSeqCalls
    /\ scalls' = scalls + 1
    /\ slast' = [obj |-> obj, op |-> op, arg |-> arg]

\* Counter::inc
Counter_inc ==
    /\ SeqReturn("counter", "inc", 0)
    /\ value' = PlusEquals(value, 1)
    /\ UNCHANGED <<apc, aop, atarget, acurrent, acalls, applied,
                   gauge, garg, notSeq>>

\* A mutant: add without the check of the sign.
Counter_add_unguarded ==
    \E v \in CounterDeltas :
        /\ SeqReturn("counter", "add", v)
        /\ value' = PlusEquals(value, v)
        /\ UNCHANGED <<apc, aop, atarget, acurrent, acalls, applied,
                       gauge, garg, notSeq>>

\* Counter::add
Counter_add ==
    \E v \in CounterDeltas :
        /\ SeqReturn("counter", "add", v)
        /\ value' = IF v > 0 THEN PlusEquals(value, v) ELSE value
        /\ UNCHANGED <<apc, aop, atarget, acurrent, acalls, applied,
                       gauge, garg, notSeq>>

NextCounterSeq ==
    \/ Counter_inc
    \/ Counter_add

\* Gauge::set: _value = value
Gauge_set ==
    \E v \in GaugeSetValues :
        /\ SeqReturn("gauge", "set", v)
        /\ gauge' = v
        /\ UNCHANGED <<garg, avars, notSeq>>

\* Gauge::inc
Gauge_inc ==
    /\ SeqReturn("gauge", "inc", 0)
    /\ gauge' = PlusEquals(gauge, 1)
    /\ UNCHANGED <<garg, avars, notSeq>>

\* Gauge::dec
Gauge_dec ==
    /\ SeqReturn("gauge", "dec", 0)
    /\ gauge' = MinusEquals(gauge, 1)
    /\ UNCHANGED <<garg, avars, notSeq>>

\* Gauge::add
Gauge_add ==
    \E v \in GaugeDeltas :
        /\ SeqReturn("gauge", "add", v)
        /\ gauge' = IF v > 0 THEN PlusEquals(gauge, v) ELSE gauge
        /\ UNCHANGED <<garg, avars, notSeq>>

\* A mutant: sub without the check of the sign.
Gauge_sub_unguarded ==
    \E v \in GaugeDeltas :
        /\ SeqReturn("gauge", "sub", v)
        /\ gauge' = MinusEquals(gauge, v)
        /\ UNCHANGED <<garg, avars, notSeq>>

\* Gauge::sub
Gauge_sub ==
    \E v \in GaugeDeltas :
        /\ SeqReturn("gauge", "sub", v)
        /\ gauge' = IF v > 0 THEN MinusEquals(gauge, v) ELSE gauge
        /\ UNCHANGED <<garg, avars, notSeq>>

NextGauge ==
    \/ Gauge_set
    \/ Gauge_inc
    \/ Gauge_dec
    \/ Gauge_add
    \/ Gauge_sub

--------------------------------------------------------------------------
(* Histogram *)

MaxHistCalls == 3

HistThreads == {"t1", "t2"}

\* std::numeric_limits<double>::infinity(): above every value observed.
Infinity == 1000

\* The bucket ladders callers construct a Histogram with, and the values
\* they observe: on a bound, between two bounds, above every finite bound.
FiniteBounds == {1, 3}
Ladders == SUBSET FiniteBounds
ObserveValues == {1, 2, 4}

\* What a default-initialized std::atomic<double> may hold.
Indeterminate == {0, 7}

\* atomic_double(const atomic_double& d) { change(d.load()); }, which the
\* map runs on a default-initialized atomic to copy {bound, 0} into a node.
CopyCtor(garbage, v) == ChangeAlone(garbage, v)

\* Histogram::Histogram: the +infinity bucket, then each bucket of the
\* ladder, every count 0.
HistCtor(l, garbage) == [b \in {Infinity} \cup l |-> CopyCtor(garbage, 0)]

\* The bounds of a std::map<double, atomic_double> in iteration order.
RECURSIVE BoundSeq(_)
BoundSeq(S) ==
    IF S = {} THEN <<>>
    ELSE LET m == CHOOSE x \in S : \A y \in S : x <= y
         IN <<m>> \o BoundSeq(S \ {m})

HistIdle ==
    /\ hsum = 0
    /\ hcalls = 0
    /\ hlast = 0
    /\ hpc = [t \in HistThreads |-> "idle"]
    /\ hval = [t \in HistThreads |-> 0]
    /\ hidx = [t \in HistThreads |-> 0]
    /\ hphase = [t \in HistThreads |-> "none"]
    /\ htarget = [t \in HistThreads |-> 0]
    /\ hcur = [t \in HistThreads |-> 0]

\* Histogram(FiniteBounds)
HistInit ==
    /\ ladder = FiniteBounds
    /\ \E g \in Indeterminate : buckets = HistCtor(ladder, g)
    /\ HistIdle

\* Histogram(buckets) for any of the ladders.
HistInitAny ==
    /\ ladder \in Ladders
    /\ \E g \in Indeterminate : buckets = HistCtor(ladder, g)
    /\ HistIdle

InBucketStrict(v, bound) == v < bound

\* if(value <= bucket.first)
InBucket(v, bound) == v <= bound

\* The loop of observe over _buckets, with no other writer.
ObserveBuckets(bk, v) ==
    [b \in DOMAIN bk |-> IF InBucket(v, b) THEN PlusEquals(bk[b], 1) ELSE bk[b]]

\* Histogram::observe, run by one caller with no other call in progress.
Observe ==
    \E v \in ObserveValues :
        /\ hcalls < MaxHistCalls
        /\ \A t \in HistThreads : hpc[t] = "idle"
        /\ hcalls' = hcalls + 1
        /\ hlast' = v
        /\ hsum' = PlusEquals(hsum, v)
        /\ buckets' = ObserveBuckets(buckets, v)
        /\ UNCHANGED <<ladder, hpc, hval, hidx, hphase, htarget, hcur, notHist>>

NextHistogram == Observe

--------------------------------------------------------------------------
(* Histogram::observe called by several threads: every += is the load,    *)
(* the read of current and the compare_exchange_weak loop of              *)
(* atomic_double, on _sum and then on each bucket in the order of the map.*)

\* The first place at or after i whose bucket takes v; past the end when
\* there is none.
NextPlace(v, i) ==
    LET bs == BoundSeq(DOMAIN buckets)
        js == {j \in i..Len(bs) : InBucket(v, bs[j])}
    IN IF js = {} THEN Len(bs) + 1
       ELSE CHOOSE j \in js : \A k \in js : j <= k

\* The accumulator the += in progress works on, and the amount it adds.
Cell(t) ==
    IF hpc[t] = "sum" THEN hsum
    ELSE buckets[BoundSeq(DOMAIN buckets)[hidx[t]]]

Amount(t) == IF hpc[t] = "sum" THEN hval[t] ELSE 1

\* A thread calls observe(value): _sum += value begins.
ObserveCall(t) ==
    \E v \in ObserveValues :
        /\ hpc[t] = "idle"
        /\ hcalls < MaxHistCalls
        /\ hcalls' = hcalls + 1
        /\ hlast' = v
        /\ hval' = [hval EXCEPT ![t] = v]
        /\ hpc' = [hpc EXCEPT ![t] = "sum"]
        /\ hphase' = [hphase EXCEPT ![t] = "load"]
        /\ UNCHANGED <<ladder, buckets, hsum, hidx, htarget, hcur, notHist>>

\* operator+=: this->load() + value
ObserveLoad(t) ==
    /\ hphase[t] = "load"
    /\ htarget' = [htarget EXCEPT ![t] =
                      OpTarget(Cell(t), [op |-> "add", d |-> Amount(t)])]
    /\ hphase' = [hphase EXCEPT ![t] = "init"]
    /\ UNCHANGED <<ladder, buckets, hsum, hcalls, hlast, hpc, hval, hidx, hcur,
                   notHist>>

\* change(): double current = *this
ObserveInit(t) ==
    /\ hphase[t] = "init"
    /\ hcur' = [hcur EXCEPT ![t] = Cell(t)]
    /\ hphase' = [hphase EXCEPT ![t] = "cas"]
    /\ UNCHANGED <<ladder, buckets, hsum, hcalls, hlast, hpc, hval, hidx,
                   htarget, notHist>>

\* compare_exchange_weak fails: current is reloaded.
ObserveCasFail(t) ==
    /\ hphase[t] = "cas"
    /\ hcur' = [hcur EXCEPT ![t] = Cell(t)]
    /\ UNCHANGED <<ladder, buckets, hsum, hcalls, hlast, hpc, hval, hidx,
                   hphase, htarget, notHist>>

\* compare_exchange_weak succeeds: the store; the loop of observe moves to
\* the next bucket that takes the value, or observe returns.
ObserveCasOk(t) ==
    /\ hphase[t] = "cas"
    /\ Cell(t) = hcur[t]
    /\ IF hpc[t] = "sum"
       THEN /\ hsum' = htarget[t]
            /\ UNCHANGED buckets
       ELSE /\ buckets' = [buckets EXCEPT
                              ![BoundSeq(DOMAIN buckets)[hidx[t]]] = htarget[t]]
            /\ UNCHANGED hsum
    /\ LET j == NextPlace(hval[t], IF hpc[t] = "sum" THEN 1 ELSE hidx[t] + 1)
       IN IF j <= Cardinality(DOMAIN buckets)
          THEN /\ hpc' = [hpc EXCEPT ![t] = "bucket"]
               /\ hidx' = [hidx EXCEPT ![t] = j]
               /\ hphase' = [hphase EXCEPT ![t] = "load"]
               /\ UNCHANGED hval
          ELSE /\ hpc' = [hpc EXCEPT ![t] = "idle"]
               /\ hidx' = [hidx EXCEPT ![t] = 0]
               /\ hphase' = [hphase EXCEPT ![t] = "none"]
               /\ hval' = [hval EXCEPT ![t] = 0]
    /\ UNCHANGED <<ladder, hcalls, hlast, htarget, hcur, notHist>>

NextHistogramConc ==
    \E t \in HistThreads :
        \/ ObserveCall(t)
        \/ ObserveLoad(t)
        \/ ObserveInit(t)
        \/ ObserveCasFail(t)
        \/ ObserveCasOk(t)

--------------------------------------------------------------------------
(* Text: a std::string is the sequence of its characters, each a string   *)
(* of length one; the stream is the sequence of the lines written to it.  *)

MaxTextCalls == 1

\* The characters that occur in label names and values, in the order of
\* their codes: the order std::string::operator< compares them by.
CharOrder == <<"\"", ".", "0", "1", "2", "\\", "a", "b", "e", "f", "i", "l",
               "n", "q">>

CharLess(a, b) ==
    (CHOOSE i \in 1..Len(CharOrder) : CharOrder[i] = a)
        < (CHOOSE i \in 1..Len(CharOrder) : CharOrder[i] = b)

\* std::string::operator<
RECURSIVE StrLess(_, _)
StrLess(a, b) ==
    IF b = <<>> THEN FALSE
    ELSE IF a = <<>> THEN TRUE
    ELSE IF a[1] # b[1] THEN CharLess(a[1], b[1])
    ELSE StrLess(Tail(a), Tail(b))

\* Label::operator<: std::tie(name, value) < std::tie(label.name, label.value)
TextLabelLess(a, b) ==
    \/ StrLess(a.name, b.name)
    \/ a.name = b.name /\ StrLess(a.value, b.value)

\* The elements of a std::set<Label> in iteration order.
RECURSIVE TextSetSeq(_)
TextSetSeq(S) ==
    IF S = {} THEN <<>>
    ELSE LET m == CHOOSE x \in S : \A y \in S \ {x} : TextLabelLess(x, y)
         IN <<m>> \o TextSetSeq(S \ {m})

\* std::set<Label>::operator<: lexicographical compare of the two sequences.
RECURSIVE TextSeqLess(_, _)
TextSeqLess(a, b) ==
    IF b = <<>> THEN FALSE
    ELSE IF a = <<>> THEN TRUE
    ELSE IF TextLabelLess(a[1], b[1]) THEN TRUE
    ELSE IF TextLabelLess(b[1], a[1]) THEN FALSE
    ELSE TextSeqLess(Tail(a), Tail(b))

\* The keys of a std::map<std::set<Label>, ...> in iteration order.
RECURSIVE TextKeySeq(_)
TextKeySeq(K) ==
    IF K = {} THEN <<>>
    ELSE LET m == CHOOSE x \in K : \A y \in K \ {x} :
                      TextSeqLess(TextSetSeq(x), TextSetSeq(y))
         IN <<m>> \o TextKeySeq(K \ {m})

DigitChars == <<"0", "1", "2", "3", "4", "5", "6", "7", "8", "9">>

RECURSIVE Digits(_)
Digits(n) ==
    IF n < 10 THEN <<DigitChars[n + 1]>>
    ELSE Digits(n \div 10) \o <<DigitChars[(n % 10) + 1]>>

\* stream << value, for a double: the default conversion (%g, precision
\* 6) of a whole number of magnitude below 10^6 is its decimal digits.
StreamDouble(x) == IF x < 0 THEN <<"-">> \o Digits(0 - x) ELSE Digits(x)

\* std::to_string(double): %f, six decimals; "inf" for infinity.
to_string(x) ==
    IF x = Infinity THEN <<"i", "n", "f">>
    ELSE StreamDouble(x) \o <<".", "0", "0", "0", "0", "0", "0">>

\* metric_type_to_string
metric_type_to_string(type) ==
    CASE type = "Counter" -> <<"c", "o", "u", "n", "t", "e", "r">>
      [] type = "Gauge" -> <<"g", "a", "u", "g", "e">>
      [] type = "Summary" -> <<"s", "u", "m", "m", "a", "r", "y">>
      [] type = "Histogram" -> <<"h", "i", "s", "t", "o", "g", "r", "a", "m">>

\* escape_double_quotes: std::regex_replace(text, std::regex("\""), "\\\"")
\* copies the text up to the first match, writes \" for the match and goes
\* on after it.
RECURSIVE escape_double_quotes(_)
escape_double_quotes(text) ==
    LET ms == {i \in 1..Len(text) : text[i] = "\""}
    IN IF ms = {} THEN text
       ELSE LET i == CHOOSE j \in ms : \A k \in ms : j <= k
            IN SubSeq(text, 1, i - 1) \o <<"\\", "\"">>
                 \o escape_double_quotes(SubSeq(text, i + 1, Len(text)))

TextLabel(n, v) == [name |-> n, value |-> v]

\* stream << comma << label.name << "=\"" << escape_double_quotes(label.value) << "\""
LabelText(comma, label) ==
    comma \o label.name \o <<"=", "\"">> \o escape_double_quotes(label.value)
          \o <<"\"">>

\* The loop of metric_serializer over labels: what it writes, and comma
\* as the loop leaves it.
RECURSIVE LabelLoop(_, _)
LabelLoop(ls, comma) ==
    IF ls = <<>> THEN [text |-> <<>>, comma |-> comma]
    ELSE LET rest == LabelLoop(Tail(ls), <<",">>)
         IN [text |-> LabelText(comma, ls[1]) \o rest.text,
             comma |-> rest.comma]

metric_serializer_braces(name, val, labels, additional_label) ==
    name \o <<"{">> \o LabelLoop(TextSetSeq(labels), <<>>).text \o <<"}">>
         \o <<" ">> \o StreamDouble(val)

\* TextSerializer::metric_serializer: the line it writes.
metric_serializer(name, val, labels, additional_label) ==
    LET loop == LabelLoop(TextSetSeq(labels), <<>>)
        extra == IF additional_label.name # <<>>
                 THEN LabelText(loop.comma, additional_label)
                 ELSE <<>>
        block == IF labels # {} \/ additional_label.name # <<>>
                 THEN <<"{">> \o loop.text \o extra \o <<"}">>
                 ELSE <<>>
    IN name \o block \o <<" ">> \o StreamDouble(val)

\* Counter::serialize and Gauge::serialize
ValueSerialize(inst, name, labels) ==
    <<metric_serializer(name, inst.val, labels, TextLabel(<<>>, <<>>))>>

\* Histogram::serialize: one line for each bucket, in the order of the map.
RECURSIVE BucketLines(_, _, _, _)
BucketLines(bs, inst, name, labels) ==
    IF bs = <<>> THEN <<>>
    ELSE <<metric_serializer(name, inst.bk[bs[1]], labels,
                             TextLabel(<<"l", "e">>, to_string(bs[1])))>>
           \o BucketLines(Tail(bs), inst, name, labels)

HistogramSerialize(inst, name, labels) ==
    BucketLines(BoundSeq(DOMAIN inst.bk), inst, name, labels)

\* T::serialize(stream, serializer, name, labels) for the T of the class.
InstanceSerialize(class, inst, name, labels) ==
    IF class \in {"HistogramMetric", "HistogramFamily"}
    THEN HistogramSerialize(inst, name, labels)
    ELSE ValueSerialize(inst, name, labels)

\* MetricFamily::serialize: every cached instance, in the order of the map.
RECURSIVE FamilyLines(_, _)
FamilyLines(ks, m) ==
    IF ks = <<>> THEN <<>>
    ELSE InstanceSerialize(m.class, m.fam[ks[1]], m.name, ks[1])
           \o FamilyLines(Tail(ks), m)

\* The MetricType each class hands to the constructor of Metric.
CtorType(class) ==
    CASE class = "CounterMetric" -> "Counter"
      [] class = "CounterFamily" -> "Counter"
      [] class = "GaugeMetric" -> "Gauge"
      [] class = "GaugeFamily" -> "Gauge"
      [] class = "HistogramMetric" -> "Histogram"
      [] class = "HistogramFamily" -> "Gauge"

Families == {"CounterFamily", "GaugeFamily", "HistogramFamily"}

\* The virtual Metric::serialize of the class of m.
MetricSerialize(m) ==
    IF m.class \in Families
    THEN FamilyLines(TextKeySeq(DOMAIN m.fam), m)
    ELSE InstanceSerialize(m.class, m.inst, m.name, {})

SerializeEntryNoType(m) ==
    <<<<"#", " ", "H", "E", "L", "P", " ">> \o m.name \o <<" ">> \o m.description>>
      \o MetricSerialize(m)

\* The body of the loop of TextSerializer::serialize for a metric that
\* lock() returned.
SerializeEntry(m) ==
    <<<<"#", " ", "H", "E", "L", "P", " ">> \o m.name \o <<" ">> \o m.description,
      <<"#", " ", "T", "Y", "P", "E", " ">> \o m.name \o <<" ">>
          \o metric_type_to_string(m.type)>>
      \o MetricSerialize(m)

--------------------------------------------------------------------------
(* The metrics and the arguments the serializer is called with. *)

TextNames == {<<"g">>, <<"m", "_", "c">>}
TextDescriptions == {<<"T", " ", "g">>, <<"d">>}
TextValues == {-3, 0, 42}

\* Label values with a quote inside, a quote alone and a backslash.
TextLabels ==
    {TextLabel(<<"l", "1">>, <<"0">>),
     TextLabel(<<"l", "1">>, <<"a", "\"", "b">>),
     TextLabel(<<"l", "2">>, <<"\"">>),
     TextLabel(<<"l", "2">>, <<"\\", "\"", "\"">>)}

ExtraLabels ==
    {TextLabel(<<>>, <<>>),
     TextLabel(<<>>, <<"b">>),
     TextLabel(<<"l", "e">>, <<"i", "n", "f">>),
     TextLabel(<<"l", "e">>, to_string(1)),
     TextLabel(<<"q">>, <<"\"", "a">>)}

EmptyBk == [b \in {} |-> 0]
Inst(v, bk) == [val |-> v, bk |-> bk]
NoInst == Inst(0, EmptyBk)
EmptyFam == [k \in {} |-> NoInst]

CounterInsts == {Inst(0, EmptyBk), Inst(42, EmptyBk)}
GaugeInsts == {Inst(v, EmptyBk) : v \in TextValues}
\* Histogram({1}) as constructed, and after observe(1) and observe(2).
HistogramInsts == {Inst(0, HistCtor({1}, 0)),
                   Inst(3, ObserveBuckets(ObserveBuckets(HistCtor({1}, 0), 1), 2))}

\* The label sets a family with the label names l1 and l2 caches.
FamKeys ==
    {{TextLabel(<<"l", "1">>, <<"0">>), TextLabel(<<"l", "2">>, <<"\"">>)},
     {TextLabel(<<"l", "1">>, <<"a", "\"", "b">>), TextLabel(<<"l", "2">>, <<"\"">>)}}

FamContents(is) ==
    UNION {[K -> is] : K \in SUBSET FamKeys}

InstsOf(class) ==
    CASE class \in {"CounterMetric", "CounterFamily"} -> CounterInsts
      [] class \in {"GaugeMetric", "GaugeFamily"} -> GaugeInsts
      [] class \in {"HistogramMetric", "HistogramFamily"} -> HistogramInsts

Classes == {"CounterMetric", "CounterFamily", "GaugeMetric", "GaugeFamily",
            "HistogramMetric", "HistogramFamily"}

\* Metric::Metric as each class calls it.
NewMetric(class, n, d, inst, fam) ==
    [class |-> class, name |-> n, description |-> d, type |-> CtorType(class),
     inst |-> inst, fam |-> fam]

TextMetrics ==
    UNION {IF class \in Families
           THEN {NewMetric(class, n, d, NoInst, f) :
                   n \in TextNames, d \in TextDescriptions,
                   f \in FamContents(InstsOf(class))}
           ELSE {NewMetric(class, n, d, i, EmptyFam) :
                   n \in TextNames, d \in TextDescriptions, i \in InstsOf(class)}
           : class \in Classes}

NoMetric == NewMetric("GaugeMetric", <<>>, <<>>, NoInst, EmptyFam)

NoTextCall == [op |-> "none", metric |-> NoMetric, name |-> <<>>, val |-> 0,
               labels |-> {}, additional_label |-> TextLabel(<<>>, <<>>)]

TextInit ==
    /\ targs = NoTextCall
    /\ tlines = <<>>
    /\ tcalls = 0

\* TextSerializer::metric_serializer called with any arguments.
CallMetricSerializer ==
    \E n \in TextNames, v \in TextValues, ls \in SUBSET TextLabels,
       al \in ExtraLabels :
        /\ tcalls < MaxTextCalls
        /\ tcalls' = tcalls + 1
        /\ targs' = [NoTextCall EXCEPT !.op = "metric_serializer", !.name = n,
                       !.val = v, !.labels = ls, !.additional_label = al]
        /\ tlines' = <<metric_serializer(n, v, ls, al)>>
        /\ UNCHANGED notText

\* TextSerializer::serialize called with a snapshot of one live metric.
CallSerialize ==
    \E m \in TextMetrics :
        /\ tcalls < MaxTextCalls
        /\ tcalls' = tcalls + 1
        /\ targs' = [NoTextCall EXCEPT !.op = "serialize", !.metric = m]
        /\ tlines' = SerializeEntry(m)
        /\ UNCHANGED notText

NextText == CallMetricSerializer \/ CallSerialize

--------------------------------------------------------------------------
(* The scrape, by one caller with no other call in progress:              *)
(* Registry::collect fills the caller's map, TextSerializer::serialize    *)
(* writes it.                                                             *)

\* The three metrics as the application constructs them: two GaugeMetric
\* of one name and a CounterMetric.
ClassOf(m) == IF m = 3 THEN "CounterMetric" ELSE "GaugeMetric"

NameText(n) ==
    IF n = "my_counter"
    THEN <<"m", "y", "_", "c", "o", "u", "n", "t", "e", "r">>
    ELSE <<"m", "y", "_", "g", "a", "u", "g", "e">>

DescriptionOf(m) ==
    CASE m = 1 -> <<"T", "e", "s", "t", " ", "g", "a", "u", "g", "e">>
      [] m = 2 -> <<"T", "e", "s", "t", " ", "g", "a", "u", "g", "e", " ", "2">>
      [] m = 3 -> <<"c">>

\* The values the metrics hold when they are scraped: those of the test
\* (GaugeMetric(..., 42), GaugeMetric(..., 2), a new CounterMetric), and
\* others.
ScrapeValues ==
    {[m \in MetricObjs |-> IF m = 1 THEN 42 ELSE IF m = 2 THEN 2 ELSE 0],
     [m \in MetricObjs |-> IF m = 1 THEN 0 ELSE IF m = 2 THEN -3 ELSE 42]}

MetricRecord(m, vals) ==
    NewMetric(ClassOf(m), NameText(MetricName(m)), DescriptionOf(m),
              Inst(vals[m], EmptyBk), EmptyFam)

\* The keys of a std::map<std::string, ...> in iteration order.
NameOrder == <<"my_counter", "my_gauge">>
NameSeq(S) == SelectSeq(NameOrder, LAMBDA n : n \in S)

\* std::weak_ptr<Metric>: the metric it refers to; dangling when it was
\* copied from a shared_ptr that was being destroyed.
WeakRef(m) == [obj |-> m, dangling |-> FALSE]
DanglingRef(m) == [obj |-> m, dangling |-> TRUE]
EmptyOut == [n \in {} |-> WeakRef(Null)]

NoScrapeCall == [op |-> "none", fresh |-> FALSE]
NoNode == [name |-> "", metric |-> Null]

ScrapeIdle ==
    /\ held = MetricObjs
    /\ out = EmptyOut
    /\ stream = <<>>
    /\ clast = NoScrapeCall
    /\ ctick = FALSE
    /\ spc = "idle"
    /\ sit = ""
    /\ snode = NoNode
    /\ slocked = WeakRef(Null)
    /\ scrapes = 0

ScrapeInit ==
    /\ mval = [m \in MetricObjs |-> IF m = 1 THEN 42 ELSE IF m = 2 THEN 2 ELSE 0]
    /\ ScrapeIdle

ScrapeInitAny ==
    /\ mval \in ScrapeValues
    /\ ScrapeIdle

\* The metrics some shared_ptr owns: the application's and the registry's.
Owned(reg, h) == h \cup {reg[n] : n \in DOMAIN reg}

\* The loop of Registry::collect: metrics.insert({p.first, p.second})
RECURSIVE CollectLoop(_, _, _)
CollectLoop(ns, reg, snapshot) ==
    IF ns = <<>> THEN snapshot
    ELSE CollectLoop(Tail(ns), reg,
                     MapInsert(snapshot, ns[1], WeakRef(reg[ns[1]])))

\* Registry::collect
collect(reg, snapshot) == CollectLoop(NameSeq(DOMAIN reg), reg, snapshot)

\* p.second.lock(): the metric when a shared_ptr still owns it, else null.
WeakLock(w, owned) == IF w.obj \in owned THEN w.obj ELSE Null

\* The loop of TextSerializer::serialize
RECURSIVE SerializeLoop(_, _, _, _)
SerializeLoop(ns, snapshot, owned, vals) ==
    IF ns = <<>> THEN <<>>
    ELSE (IF WeakLock(snapshot[ns[1]], owned) # Null
          THEN SerializeEntry(MetricRecord(WeakLock(snapshot[ns[1]], owned), vals))
          ELSE <<>>)
         \o SerializeLoop(Tail(ns), snapshot, owned, vals)

\* TextSerializer::serialize
serialize(snapshot, owned, vals) ==
    SerializeLoop(NameSeq(DOMAIN snapshot), snapshot, owned, vals)

concScrape == <<spc, sit, snode, slocked, scrapes>>

\* registry.collect(out), with a new map or with the map of the last scrape.
Collect ==
    \E fresh \in BOOLEAN :
        /\ spc = "idle"
        /\ out' = collect(register_metrics, IF fresh THEN EmptyOut ELSE out)
        /\ clast' = [op |-> "collect", fresh |-> fresh]
        /\ ctick' = ~ctick
        /\ UNCHANGED <<held, mval, stream, concScrape, rvars, notScrape>>

\* serializer.serialize(stream, out), on an empty stream.
Serialize ==
    /\ spc = "idle"
    /\ stream' = serialize(out, Owned(register_metrics, held), mval)
    /\ clast' = [op |-> "serialize", fresh |-> FALSE]
    /\ ctick' = ~ctick
    /\ UNCHANGED <<held, mval, out, concScrape, rvars, notScrape>>

\* The application lets go of its shared_ptr to a metric.
Drop ==
    \E m \in held :
        /\ held' = held \ {m}
        /\ UNCHANGED <<mval, out, stream, clast, ctick, concScrape, rvars,
                       notScrape>>

\* register_metric(metric) takes a shared_ptr the application holds.
RegisterHeld == RegisterMetric /\ rlast'.metric \in held

NextScrape ==
    \/ RegisterHeld
    \/ UnregisterMetric
    \/ Collect
    \/ Serialize
    \/ Drop

--------------------------------------------------------------------------
(* A scraping thread calls collect and then serialize while other threads *)
(* call the registry.  collect takes no lock: its loop reads the nodes of *)
(* _register_metrics while register_metric and unregister_metric change   *)
(* the map.                                                               *)

MaxScrapes == 1
MaxScrapeRegCalls == 2

\* The metrics some shared_ptr owns: the application's, the registry's,
\* the parameter of a register_metric in progress, the result of a
\* get_metric in progress, and the one serialize locked.
OwnedNow ==
    (Owned(register_metrics, held)
       \cup {rcall[t].metric : t \in RegThreads}
       \cup {rres[t].retm : t \in RegThreads}
       \cup (IF slocked.dangling THEN {} ELSE {slocked.obj})) \ {Null}

\* The keys of S after n in iteration order; all of them after "".
After(S, n) ==
    LET pos(k) == IF k = "" THEN 0
                  ELSE CHOOSE i \in 1..Len(NameOrder) : NameOrder[i] = k
    IN NameSeq({k \in S : pos(k) > pos(n)})

\* A thread calls the registry; register_metric takes a shared_ptr the
\* application holds.
ScrapeRegCall(t) ==
    /\ rcalls < MaxScrapeRegCalls
    /\ RegCall(t)
    /\ rcall'[t].op = "register" => rcall'[t].metric \in held

\* The scraping thread declares a map and calls registry.collect(out).
ScrapeCall ==
    /\ spc = "idle"
    /\ scrapes < MaxScrapes
    /\ scrapes' = scrapes + 1
    /\ out' = EmptyOut
    /\ stream' = <<>>
    /\ spc' = "collect"
    /\ UNCHANGED <<held, mval, clast, ctick, sit, snode, slocked, rvars,
                   notScrape>>

\* The node the iterator of collect stood on is no longer in the map.
NodeErased ==
    /\ snode # NoNode
    /\ \/ snode.name \notin DOMAIN register_metrics
       \/ register_metrics[snode.name] # snode.metric

\* collect: the loop moves to the next node of _register_metrics and reads
\* it, or ends and collect returns.  Moving on from a node that was erased
\* reads freed memory: the loop goes on in the map as it is now, or ends.
CollectNext ==
    /\ spc = "collect"
    /\ \E stop \in (IF NodeErased THEN BOOLEAN ELSE {FALSE}) :
         LET ns == After(DOMAIN register_metrics, snode.name)
         IN IF stop \/ ns = <<>>
            THEN /\ snode' = NoNode
                 /\ spc' = "serialize"
            ELSE /\ snode' = [name |-> ns[1], metric |-> register_metrics[ns[1]]]
                 /\ spc' = "insert"
    /\ UNCHANGED <<held, mval, out, stream, clast, ctick, sit, slocked, scrapes,
                   rvars, notScrape>>

\* collect: metrics.insert({p.first, p.second}) makes a weak_ptr of the
\* shared_ptr read from the node.  When the last owner let go of the
\* metric since the read, the weak_ptr is made of a freed control block.
CollectInsert ==
    /\ spc = "insert"
    /\ out' = MapInsert(out, snode.name,
                        IF snode.metric \in OwnedNow THEN WeakRef(snode.metric)
                        ELSE DanglingRef(snode.metric))
    /\ spc' = "collect"
    /\ UNCHANGED <<held, mval, stream, clast, ctick, sit, snode, slocked,
                   scrapes, rvars, notScrape>>

\* serialize: the loop moves to the next entry of out and calls lock() on
\* it.  lock() on a weak_ptr made of a freed control block returns null or
\* a pointer to the destroyed metric.
SerializeLock ==
    /\ spc = "serialize"
    /\ After(DOMAIN out, sit) # <<>>
    /\ LET n == After(DOMAIN out, sit)[1]
       IN /\ sit' = n
          /\ \E got \in (IF out[n].dangling
                         THEN {WeakRef(Null), out[n]}
                         ELSE {WeakRef(WeakLock(out[n], OwnedNow))}) :
               /\ slocked' = got
               /\ spc' = IF got.obj = Null THEN "serialize" ELSE "emit"
    /\ UNCHANGED <<held, mval, out, stream, clast, ctick, snode, scrapes,
                   rvars, notScrape>>

\* serialize: the HELP line, the TYPE line and the samples of the metric
\* lock() returned, then the shared_ptr goes out of scope.
SerializeEmit ==
    /\ spc = "emit"
    /\ stream' = stream \o SerializeEntry(MetricRecord(slocked.obj, mval))
    /\ slocked' = WeakRef(Null)
    /\ spc' = "serialize"
    /\ UNCHANGED <<held, mval, out, clast, ctick, sit, snode, scrapes,
                   rvars, notScrape>>

\* serialize: the loop is at the end of out, serialize returns.
SerializeReturn ==
    /\ spc = "serialize"
    /\ After(DOMAIN out, sit) = <<>>
    /\ sit' = ""
    /\ spc' = "idle"
    /\ UNCHANGED <<held, mval, out, stream, clast, ctick, snode, slocked,
                   scrapes, rvars, notScrape>>

\* The steps of a registry call in progress, and those of the scrape.
RegStep(t) ==
    \/ RegLock(t)
    \/ RegFind(t)
    \/ RegInsertStep(t)
    \/ RegIndexStep(t)
    \/ RegEraseStep(t)
    \/ RegSizeStep(t)
    \/ RegUnlock(t)

ScrapeStep ==
    \/ CollectNext
    \/ CollectInsert
    \/ SerializeLock
    \/ SerializeEmit
    \/ SerializeReturn

\* The application keeps its shared_ptr to every metric.
NextScrapeHeld ==
    \/ \E t \in RegThreads : ScrapeRegCall(t) \/ RegStep(t)
    \/ ScrapeCall
    \/ ScrapeStep

NextScrapeConc ==
    \/ NextScrapeHeld
    \/ Drop

--------------------------------------------------------------------------
(* A thread walks _buckets, as Histogram::serialize does and as a caller  *)
(* of buckets() does, while other threads call observe: each count is one *)
(* atomic load, and the loads of two buckets are two steps.               *)

MaxReads == 1
MaxReadObserves == 2

ReadInit ==
    /\ rdpc = "idle"
    /\ rdidx = 0
    /\ rdseen = <<>>
    /\ rdcalls = 0

\* Histogram::serialize is called: for(const auto& p : _buckets) begins.
ReadCall ==
    /\ rdpc = "idle"
    /\ rdcalls < MaxReads
    /\ rdcalls' = rdcalls + 1
    /\ rdpc' = "walk"
    /\ rdidx' = 1
    /\ rdseen' = <<>>
    /\ UNCHANGED notRead

\* serializer(stream, name, p.second, ...): the load of the count of the
\* bucket the loop is at; after the last bucket serialize returns.
ReadBucket ==
    /\ rdpc = "walk"
    /\ rdseen' = Append(rdseen, buckets[BoundSeq(DOMAIN buckets)[rdidx]])
    /\ IF rdidx < Cardinality(DOMAIN buckets)
       THEN /\ rdidx' = rdidx + 1
            /\ rdpc' = "walk"
       ELSE /\ rdidx' = 0
            /\ rdpc' = "idle"
    /\ UNCHANGED <<rdcalls, notRead>>

\* A thread calls observe while the reader may be walking.
ReadObserveCall(t) ==
    /\ hcalls < MaxReadObserves
    /\ ObserveCall(t)

NextHistogramRead ==
    \/ \E t \in HistThreads :
          \/ ReadObserveCall(t)
          \/ ObserveLoad(t)
          \/ ObserveInit(t)
          \/ ObserveCasFail(t)
          \/ ObserveCasOk(t)
    \/ ReadCall
    \/ ReadBucket

--------------------------------------------------------------------------
Init ==
    AccInit /\ FamInit /\ RegInit /\ SeqInit /\ HistInit /\ TextInit /\ ScrapeInit
    /\ ReadInit

InitGauge ==
    AccInit /\ FamInit /\ RegInit /\ SeqInitAny /\ HistInit /\ TextInit /\ ScrapeInit
    /\ ReadInit

InitHistogram ==
    AccInit /\ FamInit /\ RegInit /\ SeqInit /\ HistInitAny /\ TextInit /\ ScrapeInit
    /\ ReadInit

SpecAcc == Init /\ [][NextAcc]_vars

SpecCounter == Init /\ [][NextCounter]_vars

SpecFamily == Init /\ [][NextFamily]_vars

SpecFamilyConc == Init /\ [][NextFamilyConc]_vars

SpecRegistry == Init /\ [][NextRegistry]_vars

SpecRegistryConc == Init /\ [][NextRegistryConc]_vars

SpecCounterSeq == Init /\ [][NextCounterSeq]_vars

SpecGauge == InitGauge /\ [][NextGauge]_vars

SpecHistogram == InitHistogram /\ [][NextHistogram]_vars

SpecHistogramConc == Init /\ [][NextHistogramConc]_vars

SpecHistogramRead == Init /\ [][NextHistogramRead]_vars

SpecText == Init /\ [][NextText]_vars

InitScrape ==
    AccInit /\ FamInit /\ RegInit /\ SeqInit /\ HistInit /\ TextInit /\ ScrapeInitAny
    /\ ReadInit

SpecScrape == InitScrape /\ [][NextScrape]_vars

SpecScrapeConc == Init /\ [][NextScrapeConc]_vars

\* Every thread that is inside a call is scheduled again and again, and a
\* thread that waits for a mutex that is free again and again gets it.
Fairness ==
    /\ \A t \in RegThreads : WF_vars(RegStep(t)) /\ SF_vars(RegLock(t))
    /\ WF_vars(ScrapeStep)

SpecScrapeFair == Init /\ [][NextScrapeHeld]_vars /\ Fairness


--------------------------------------------------------------------------
(* C1: once every add/subtract call has returned, the accumulator holds   *)
(* its initial value plus the sum of the added deltas minus the sum of    *)
(* the subtracted deltas: no update is lost.                              *)
AllReturned == \A t \in AccThreads : apc[t] = "idle"

C1_NoLostUpdate == AllReturned => value = InitialValue + applied

(* C2: for concurrent labels() calls that pass the same valid label set, *)
(* exactly one instance is ever constructed for that label set and every  *)
(* call returns that instance, the one the cache stores.                  *)
ValidLabelSet(L) ==
    /\ {l.name : l \in L} = labels_names
    /\ Cardinality(L) = Cardinality(labels_names)

C2_OneInstancePerLabelSet ==
    /\ \A a \in fmade, b \in fmade :
          (ValidLabelSet(a[1]) /\ a[1] = b[1]) => a[2] = b[2]
    /\ \A r \in fret :
          ValidLabelSet(r[1]) => (r[1] \in DOMAIN metrics /\ metrics[r[1]] = r[2])

(* C3: a Counter is monotonic: get() never decreases from one state to    *)
(* the next, for any interleaving of inc() and add(v) calls.              *)
C3_CounterMonotonic == [][value' >= value]_vars

(* C4: registering a metric whose name is already present returns false   *)
(* and leaves the registry unchanged: size() is what it was and get(name) *)
(* still returns the metric registered first, not the rejected one.       *)
RegCallStep(op) == rtick' # rtick /\ rlast'.op = op

C4_DuplicateRejected ==
    [][(RegCallStep("register") /\ rlast'.name \in DOMAIN register_metrics) =>
          /\ rlast'.retb = FALSE
          /\ register_metrics' = register_metrics
          /\ RegSize(register_metrics') = RegSize(register_metrics)
          /\ get_metric(register_metrics', rlast'.name).ret
                = register_metrics[rlast'.name]]_vars

\* A metric was rejected because another metric holds its name.
C4_Witness ==
    /\ rlast.op = "register"
    /\ ~rlast.retb
    /\ rlast.name \in DOMAIN register_metrics
    /\ register_metrics[rlast.name] # rlast.metric

(* C5: with concurrent register calls for metrics that share one name and *)
(* no unregister of that name, exactly one call returns true, the         *)
(* registry ends with one entry for the name, and get(name) returns the   *)
(* metric of the call that returned true.                                 *)
AllRegReturned == \A t \in RegThreads : rpc[t] = "idle"

C5_OneRegisterWins ==
    \A n \in MetricNames \ runreg :
        /\ rtrue[n] <= 1
        /\ (AllRegReturned /\ rdone[n] >= 1) =>
              /\ rtrue[n] = 1
              /\ n \in DOMAIN register_metrics
              /\ register_metrics[n] = rwinner[n]
              /\ get_metric(register_metrics, n).ret = rwinner[n]

\* Two register calls for one name have returned, one of them false, and
\* the name was never unregistered.
C5_Witness ==
    \E n \in MetricNames \ runreg :
        /\ AllRegReturned
        /\ rdone[n] >= 2
        /\ rtrue[n] = 1

(* C6: unregister(name) returns true exactly when an entry for name       *)
(* existed and removes it: after a successful register the first          *)
(* unregister returns true, a second one returns false, get(name) then    *)
(* returns empty, and unregistering a name never registered returns false *)
(* and changes nothing.                                                   *)
C6_Unregister ==
    [][/\ RegCallStep("unregister") =>
            LET n == rlast'.name
            IN /\ rlast'.retb = (n \in DOMAIN register_metrics)
               /\ n \notin DOMAIN register_metrics'
               /\ DOMAIN register_metrics' = DOMAIN register_metrics \ {n}
               /\ \A k \in DOMAIN register_metrics' :
                     register_metrics'[k] = register_metrics[k]
               /\ (n \in live) => rlast'.retb
               /\ (n \in gone) => ~rlast'.retb
               /\ (n \notin ever) =>
                     (~rlast'.retb /\ register_metrics' = register_metrics)
       /\ (RegCallStep("get") /\ rlast'.name \in gone) =>
             rlast'.retm = Null]_vars

\* A second unregister of a name returned false while another name is
\* still registered.
C6_Witness ==
    /\ rlast.op = "unregister"
    /\ ~rlast.retb
    /\ rlast.name \in ever
    /\ register_metrics # EmptyMap

(* C7: a labels() call whose label set has another size than the schema, *)
(* or holds a label name the schema lacks, fails with invalid_argument    *)
(* and leaves the cache, keys and instances, as it was before the call.   *)
LabelsCallStep == fcalls' = fcalls + 1

BadLabelSet(L) ==
    \/ Cardinality(L) # Cardinality(labels_names)
    \/ \E l \in L : l.name \notin labels_names

C7_InvalidLabelsRejected ==
    [][(LabelsCallStep /\ BadLabelSet(flast'.labels))
         => (flast'.threw /\ metrics' = metrics /\ insts' = insts)]_vars

\* A call with the right number of labels and an unknown name was rejected
\* by a family that already caches an instance.
C7_Witness ==
    /\ flast.threw
    /\ Cardinality(flast.labels) = Cardinality(labels_names)
    /\ \E l \in flast.labels : l.name \notin labels_names
    /\ DOMAIN metrics # {}

(* C8: every key of the cache has exactly the schema's label names: the   *)
(* names occurring in the key are the schema, each occurring once.        *)
KeyNames(k) == {l.name : l \in k}

C8_KeysMatchSchema ==
    \A k \in DOMAIN metrics :
        /\ KeyNames(k) = labels_names
        /\ Cardinality(k) = Cardinality(labels_names)

(* C9: sequentially, labels(L) for a cached L returns the instance the    *)
(* first labels(L) returned, with no instance touched and the arguments   *)
(* of the call ignored; labels(L2) for a label set not cached returns an  *)
(* instance no earlier call returned, built from that call's arguments.   *)
C9_FirstWriterWins ==
    [][(LabelsCallStep /\ ~flast'.threw) =>
          LET L == flast'.labels
              r == flast'.inst
          IN IF L \in DOMAIN metrics
             THEN /\ L \in DOMAIN first
                  /\ r = first[L]
                  /\ r # Null
                  /\ insts' = insts
             ELSE /\ \A x \in fret : x[2] # r
                  /\ r = Len(insts) + 1
                  /\ Len(insts') = r
                  /\ insts'[r] = [init |-> flast'.arg, val |-> flast'.arg]
                  /\ \A i \in 1..Len(insts) : insts'[i] = insts[i]]_vars

\* A second labels(L) returned a cached instance whose value had been set
\* and whose default value differs from the one this call passed, in a
\* family that caches another instance too.
C9_Witness ==
    /\ ~flast.threw
    /\ flast.inst # Null
    /\ insts[flast.inst].init # flast.arg
    /\ insts[flast.inst].val \in GaugeValues
    /\ Cardinality(DOMAIN metrics) = 2

(* C10: a family's cache only grows: in every step of any interleaving of *)
(* labels() and serialize calls no key is removed, the instance bound to  *)
(* a key is never replaced, and the number of cached instances never      *)
(* decreases.  Stated for the keys that carry exactly the schema's names,  *)
(* which is the least the claim asks.                                     *)
ValidKeys(m) == {k \in DOMAIN m : ValidLabelSet(k)}

C10_CacheOnlyGrows ==
    [][/\ \A k \in ValidKeys(metrics) :
             k \in DOMAIN metrics' /\ metrics'[k] = metrics[k]
       /\ Cardinality(ValidKeys(metrics')) >= Cardinality(ValidKeys(metrics))]_vars

(* C13: sequentially, Counter.add(v) with v <= 0 leaves get() unchanged,  *)
(* add(v) with v > 0 increases it by exactly v, inc() increases it by     *)
(* exactly 1, and the value starts at 0.                                  *)
SeqCallStep(obj, op) ==
    scalls' = scalls + 1 /\ slast'.obj = obj /\ slast'.op = op

C13_CounterSequential ==
    /\ CounterGet = 0
    /\ [][/\ SeqCallStep("counter", "add") =>
               IF slast'.arg <= 0
               THEN CounterGet' = CounterGet
               ELSE CounterGet' = CounterGet + slast'.arg
          /\ SeqCallStep("counter", "inc") => CounterGet' = CounterGet + 1]_vars

\* add(v) with a negative v returned on a Counter that inc() and add()
\* had raised to 3 and left there.
C13_Witness ==
    /\ slast.obj = "counter"
    /\ slast.op = "add"
    /\ slast.arg < 0
    /\ CounterGet = 3

(* C14: sequentially, Gauge.add(v) and Gauge.sub(v) with v <= 0 change    *)
(* nothing; with v > 0 add raises and sub lowers the value by exactly v;  *)
(* set(v) makes the value v for any v; inc() and dec() change it by +1    *)
(* and -1; the value starts at the caller's initial value, 0 when none    *)
(* is given.                                                             *)
C14_GaugeSequential ==
    /\ gauge = (IF garg.given THEN garg.v ELSE 0)
    /\ [][/\ SeqCallStep("gauge", "add") =>
               gauge' = (IF slast'.arg <= 0 THEN gauge ELSE gauge + slast'.arg)
          /\ SeqCallStep("gauge", "sub") =>
               gauge' = (IF slast'.arg <= 0 THEN gauge ELSE gauge - slast'.arg)
          /\ SeqCallStep("gauge", "set") => gauge' = slast'.arg
          /\ SeqCallStep("gauge", "inc") => gauge' = gauge + 1
          /\ SeqCallStep("gauge", "dec") => gauge' = gauge - 1]_vars

\* sub(v) with a negative v returned on a Gauge constructed with 5 that
\* sub() had lowered below it.
C14_Witness ==
    /\ slast.obj = "gauge"
    /\ slast.op = "sub"
    /\ slast.arg < 0
    /\ garg.given
    /\ gauge < garg.v

(* C11: bucket counts are cumulative: once every observe call has        *)
(* returned, whether the calls ran one after another or concurrently, the *)
(* count of b2 is at least the count of b1 for all bounds b1 < b2.        *)
AllObserved == \A t \in HistThreads : hpc[t] = "idle"

Cumulative(bk) ==
    \A b1 \in DOMAIN bk, b2 \in DOMAIN bk : b1 < b2 => bk[b2] >= bk[b1]

C11_BucketsCumulative == AllObserved => Cumulative(buckets)

(* C12: sequentially, observe(v) raises the sum by exactly v, raises by   *)
(* exactly 1 the count of every bucket whose bound is >= v (a bound equal *)
(* to v included, and the +infinity bucket always, which every ladder     *)
(* gets), and leaves every bucket whose bound is < v as it was.           *)
C12_ObserveSequential ==
    /\ Infinity \in DOMAIN buckets
    /\ DOMAIN buckets = ladder \cup {Infinity}
    /\ hsum = 0
    /\ \A b \in DOMAIN buckets : buckets[b] = 0
    /\ [][hcalls' = hcalls + 1 =>
            /\ hsum' = hsum + hlast'
            /\ DOMAIN buckets' = DOMAIN buckets
            /\ buckets'[Infinity] = buckets[Infinity] + 1
            /\ \A b \in DOMAIN buckets :
                  /\ (b >= hlast') => buckets'[b] = buckets[b] + 1
                  /\ (b < hlast') => buckets'[b] = buckets[b]]_vars

\* A value equal to a bound was observed after a greater one: its bucket
\* counts 1 and the +infinity bucket 2.
C12_Witness ==
    /\ hlast \in DOMAIN buckets
    /\ buckets[hlast] = 1
    /\ buckets[Infinity] = 2
    /\ hsum > hlast

(* C15: for every serialized metric the "# TYPE <name> <type-string>"     *)
(* line carries the type string of the metric's kind: counter for a       *)
(* Counter metric or family, gauge for a Gauge metric or family,          *)
(* histogram for a Histogram metric or family.                            *)
KindString(class) ==
    CASE class \in {"CounterMetric", "CounterFamily"} ->
             <<"c", "o", "u", "n", "t", "e", "r">>
      [] class \in {"GaugeMetric", "GaugeFamily"} ->
             <<"g", "a", "u", "g", "e">>
      [] class \in {"HistogramMetric", "HistogramFamily"} ->
             <<"h", "i", "s", "t", "o", "g", "r", "a", "m">>

C15_TypeLine ==
    targs.op = "serialize" =>
        /\ Len(tlines) >= 2
        /\ tlines[2] = <<"#", " ", "T", "Y", "P", "E", " ">> \o targs.metric.name
                         \o <<" ">> \o KindString(targs.metric.class)

(* C20: a sample line is the metric name, a label block, a space and the  *)
(* value.  The block is absent exactly when the label set is empty and    *)
(* the extra label has an empty name; otherwise it is "{", the labels in  *)
(* (name, value) order and then the extra label, each as name="value"     *)
(* with "," between two of them and none after the last, and "}".  In a   *)
(* value every double quote is replaced by a backslash and a double       *)
(* quote, and no other character changes.                                 *)
RECURSIVE Concat(_)
Concat(ss) == IF ss = <<>> THEN <<>> ELSE ss[1] \o Concat(Tail(ss))

RECURSIVE Join(_, _)
Join(items, sep) ==
    IF Len(items) <= 1 THEN Concat(items)
    ELSE items[1] \o sep \o Join(Tail(items), sep)

QuotesReplaced(v) ==
    Concat([i \in 1..Len(v) |->
               IF v[i] = "\"" THEN <<"\\", "\"">> ELSE <<v[i]>>])

Rendered(l) == l.name \o <<"=", "\"">> \o QuotesReplaced(l.value) \o <<"\"">>

Canonical(S) ==
    CHOOSE s \in [1..Cardinality(S) -> S] :
        /\ {s[i] : i \in 1..Cardinality(S)} = S
        /\ \A i \in 1..Cardinality(S), j \in 1..Cardinality(S) :
             i < j => \/ StrLess(s[i].name, s[j].name)
                      \/ s[i].name = s[j].name /\ StrLess(s[i].value, s[j].value)

ExpectedBlock(labels, extra) ==
    IF labels = {} /\ extra.name = <<>> THEN <<>>
    ELSE LET own == [i \in 1..Cardinality(labels) |-> Rendered(Canonical(labels)[i])]
             items == IF extra.name = <<>> THEN own
                      ELSE own \o <<Rendered(extra)>>
         IN <<"{">> \o Join(items, <<",">>) \o <<"}">>

DigitValue(c) == CHOOSE d \in 0..9 : DigitChars[d + 1] = c

IsDigits(s) ==
    /\ s # <<>>
    /\ \A i \in 1..Len(s) : \E d \in 1..Len(DigitChars) : DigitChars[d] = s[i]

RECURSIVE Number(_)
Number(s) ==
    IF Len(s) = 1 THEN DigitValue(s[1])
    ELSE 10 * Number(SubSeq(s, 1, Len(s) - 1)) + DigitValue(s[Len(s)])

\* The text s is the decimal notation of the whole number x.
ParsesTo(s, x) ==
    IF x < 0
    THEN Len(s) >= 2 /\ s[1] = "-" /\ IsDigits(Tail(s)) /\ Number(Tail(s)) = 0 - x
    ELSE IsDigits(s) /\ Number(s) = x

C20_SampleLine ==
    targs.op = "metric_serializer" =>
        LET pre == targs.name \o ExpectedBlock(targs.labels, targs.additional_label)
                     \o <<" ">>
            line == tlines[1]
        IN /\ Len(tlines) = 1
           /\ Len(line) > Len(pre)
           /\ SubSeq(line, 1, Len(pre)) = pre
           /\ ParsesTo(SubSeq(line, Len(pre) + 1, Len(line)), targs.val)

\* A line with every label of the universe, quotes among their values, and
\* an extra label was written.
C20_Witness ==
    /\ targs.op = "metric_serializer"
    /\ targs.labels = TextLabels
    /\ targs.additional_label.name = <<"q">>
    /\ Len(tlines) = 1

(* C17: round trip register, collect, serialize: when the snapshot holds  *)
(* the metrics of the registry, all bare Gauge or Counter metrics, the     *)
(* text is one block for each registered metric and nothing else, and the *)
(* block of the metric of name n, description d and value x is three      *)
(* lines in this order: "# HELP n d", "# TYPE n <type-string>", "n x",    *)
(* the last with no label block.                                          *)
SnapshotOfRegistry ==
    /\ DOMAIN out = DOMAIN register_metrics
    /\ \A n \in DOMAIN out : out[n] = WeakRef(register_metrics[n])

IsBlockOf(lines, m) ==
    LET n == NameText(MetricName(m))
    IN /\ Len(lines) = 3
       /\ lines[1] = <<"#", " ", "H", "E", "L", "P", " ">> \o n \o <<" ">>
                       \o DescriptionOf(m)
       /\ lines[2] = <<"#", " ", "T", "Y", "P", "E", " ">> \o n \o <<" ">>
                       \o KindString(ClassOf(m))
       /\ Len(lines[3]) > Len(n) + 1
       /\ SubSeq(lines[3], 1, Len(n) + 1) = n \o <<" ">>
       /\ ParsesTo(SubSeq(lines[3], Len(n) + 2, Len(lines[3])), mval[m])

C17_RoundTrip ==
    [][(ctick' # ctick /\ clast'.op = "serialize" /\ SnapshotOfRegistry) =>
          LET k == Cardinality(DOMAIN register_metrics)
          IN /\ Len(stream') = 3 * k
             /\ \A n \in DOMAIN register_metrics :
                  Cardinality({j \in 0..(k - 1) :
                      IsBlockOf(SubSeq(stream', 3 * j + 1, 3 * j + 3),
                                register_metrics[n])}) = 1]_vars

\* Two metrics were registered, collected and serialized: six lines.
C17_Witness ==
    /\ clast.op = "serialize"
    /\ SnapshotOfRegistry
    /\ Cardinality(DOMAIN register_metrics) = 2
    /\ Len(stream) = 6

(* C18: when collect(out) returns, for every name n registered out[n]     *)
(* refers to the metric now registered under n, whatever out held before  *)
(* the call, an entry for n left by an earlier collect of a metric since  *)
(* unregistered and replaced included.                                    *)
C18_CollectRefersToRegistered ==
    [][(ctick' # ctick /\ clast'.op = "collect") =>
          \A n \in DOMAIN register_metrics' :
              /\ n \in DOMAIN out'
              /\ out'[n].obj = register_metrics'[n]]_vars

(* C16: serialize never reads a metric that has been destroyed, for any   *)
(* interleaving of unregister with collect and serialize: whenever it     *)
(* writes the block of an entry, a shared_ptr owns the metric; an entry   *)
(* whose metric was destroyed writes no line.                             *)
C16_NeverReadsDestroyed == spc = "emit" => slocked.obj \in OwnedNow

(* C19: serialize takes no registry lock and no registry call holds the   *)
(* lock while it waits for another: in every reachable state of any       *)
(* interleaving of register, unregister, get, size, collect and serialize *)
(* some thread inside a call can take a step, and under fair scheduling   *)
(* every call that started returns.                                       *)
InCall == spc # "idle" \/ \E t \in RegThreads : rpc[t] # "idle"

InCollectLoop == spc \in {"collect", "insert"}

InMutatingSection(t) == rpc[t] \in {"insert", "unregister"}

C21_CollectExcludesMutation ==
    ~(InCollectLoop /\ \E t \in RegThreads : InMutatingSection(t))

(* C22: a reader that walks the buckets in ascending order of bound while *)
(* observe calls run never reads a set of counts in which a bucket of a   *)
(* lower bound has a greater count than a bucket of a higher bound: what  *)
(* it reads is cumulative even in the middle of an observe.               *)
C22_ReaderSeesCumulative ==
    \A i \in 1..Len(rdseen), j \in 1..Len(rdseen) :
        i < j => rdseen[i] <= rdseen[j]

====
